---------------------------- MODULE Spec2Model ----------------------------
(***************************************************************************)
(* A model of personal_scribe: the chunked recording session of            *)
(* AudioRecorder (scripts/recorder.py), its consolidation step, and the    *)
(* transcript persistence of WhisperTranscriber (scripts/transcriber.py).  *)
(*                                                                         *)
(* File names are modelled as the strings the code builds, each string a   *)
(* sequence of character codes, so that glob matching and the              *)
(* lexicographic order of sorted() are computed on the real names.         *)
(***************************************************************************)
EXTENDS Integers, Sequences, FiniteSets, TLC

(***************************************************************************)
(* Bounds of the model.                                                    *)
(***************************************************************************)
\* chunks a session may capture before the model stops starting captures
MaxChunks == 3
\* largest ceiling (max_recordings) the caller passes
MaxCeiling == 2
\* samples the backend delivers for one chunk: 1..MaxSamples
MaxSamples == 2
\* the clock (seconds) runs over 0..MaxClock
MaxClock == 1
\* transcribe calls made, over all WhisperTranscriber instances
MaxCalls == 2
\* WhisperTranscriber instances
MaxAdapters == 2
\* recording sessions started on one AudioRecorder
MaxSessions == 2
\* the largest number the user enters at a menu prompt
MaxChoice == 3
\* recording sessions started from the menu in one run
MaxMenuSessions == 1

(***************************************************************************)
(* Program constants.                                                      *)
(***************************************************************************)
\* the width of the sequence number in f"chunk_{session_id}_{chunk_num:04d}"
PadWidth == 4
\* AudioRecorder.__init__(sample_rate=16000)
SampleRate == 16000

VARIABLES
    \* ---- the recordings directory (AudioRecorder.output_dir) ----
    files,          \* file name -> [rate, data, full]
    now,            \* the wall clock, in seconds
    \* ---- continuous_record ----
    pc,             \* position in continuous_record / _consolidate_recordings
    max_recordings, \* argument
    consolidate,    \* argument
    callback,       \* argument: TRUE when a callback is supplied
    chunk_num,      \* local
    session_id,     \* local
    recording,      \* record(): the buffer sd.rec delivered
    \* ---- _consolidate_recordings ----
    chunks,         \* sorted(self.output_dir.glob(pattern))
    data_list,      \* the buffers read
    sample_rate,    \* the rate of the first chunk read
    output_path,    \* the consolidated file's name, <<>> before it is chosen
    \* ---- history of the session (not program state) ----
    captures,       \* number of captures started (sd.rec calls)
    written,        \* sequence numbers of the chunk files fully written, in order
    reported,       \* the count printed by "Recording stopped", -1 before
    interrupted,    \* a KeyboardInterrupt was delivered inside the try block
    record_failed,  \* record() raised (backend or chunk-file write failure)
    removed,        \* chunk files unlinked by _consolidate_recordings
    rexc,           \* the exception that left continuous_record, "none" if none
    result,         \* what continuous_record returned to its caller
    prior,          \* the recordings directory when the session started
    mtime,          \* consolidated recordings, in the order of their last write
    sessions,       \* continuous_record calls made so far
    \* ---- WhisperTranscriber ----
    tpc,            \* position in transcribe / _save_transcript
    self,           \* the instance transcribe is called on
    model,          \* self.model of every instance: "None" or "loaded"
    loads,          \* history: load_model calls that succeeded, per instance
    used,           \* history: instances transcribe was called on
    texc,           \* the exception that left transcribe, "none" if none
    tfiles,         \* the transcripts directory: file name -> [full]
    audio_file,     \* argument of transcribe
    save,           \* argument of transcribe
    timestamp,      \* _save_transcript: the timestamp of the base name
    created,        \* transcript files the current call has created
    calls,          \* transcribe calls made so far
    \* ---- WhisperNotetaker (main.py) ----
    mpc,            \* position in the menu handlers, "off" when no menu runs
    chunk_duration, \* _start_recording_session: the duration entered
    max_chunks,     \* _start_recording_session: the announced chunk count
    recordings,     \* the listing a menu handler shows, newest first
    choice,         \* what the user entered at "Enter number"
    selected,       \* the recording a menu handler selected, <<>> if none
    invalid,        \* "Invalid selection" was printed
    transcribed,    \* history: files the menu passed to the transcriber
    deleted,        \* history: files the menu unlinked
    message,        \* what the loop printed last about an operation: "error", "cancelled", "deleted"
    transcripts     \* the listing _view_transcripts shows

recState == <<files, pc, max_recordings, consolidate, callback, chunk_num,
              session_id, recording, chunks, data_list, sample_rate, output_path,
              captures, written, reported, interrupted, record_failed, removed,
              rexc, result, prior, mtime, sessions>>
recVars == <<recState, now>>
sessVars == <<rexc, result, prior, mtime, sessions>>
transVars == <<tpc, self, model, loads, used, texc, tfiles, audio_file, save,
               timestamp, created, calls>>
menuVars == <<mpc, chunk_duration, max_chunks, recordings, choice, selected, invalid,
              transcribed, deleted, message, transcripts>>
menuData == <<chunk_duration, max_chunks, recordings, choice, selected, invalid,
              transcribed, deleted, transcripts>>
vars == <<recVars, transVars, menuVars>>

(***************************************************************************)
(* Strings.                                                                *)
(***************************************************************************)
\* "chunk_"
StrChunk == <<99, 104, 117, 110, 107, 95>>
\* "consolidated_"
StrConsolidated == <<99, 111, 110, 115, 111, 108, 105, 100, 97, 116, 101, 100, 95>>
\* "_"
StrUnderscore == <<95>>
\* ".wav"
StrWav == <<46, 119, 97, 118>>
\* "transcript_"
StrTranscript == <<116, 114, 97, 110, 115, 99, 114, 105, 112, 116, 95>>
\* ".txt"
StrTxt == <<46, 116, 120, 116>>
\* ".json"
StrJson == <<46, 106, 115, 111, 110>>

RECURSIVE Digits(_)
\* the decimal digits of n >= 0, most significant first
Digits(n) == IF n < 10 THEN <<n>> ELSE Digits(n \div 10) \o <<n % 10>>

RECURSIVE ZeroPad(_, _)
\* d left-padded with zeros to at least w digits
ZeroPad(d, w) == IF Len(d) >= w THEN d ELSE ZeroPad(<<0>> \o d, w)

\* the characters of a digit sequence
DigitChars(d) == [i \in 1..Len(d) |-> 48 + d[i]]

\* f"{chunk_num:04d}"
FormatSeq(n) == DigitChars(ZeroPad(Digits(n), PadWidth))

\* datetime.now().strftime("%Y%m%d_%H%M%S"): fixed-width fields, so equal
\* length for every time; the model's clock is rendered in two digits
Strftime(t) == DigitChars(ZeroPad(Digits(t), 2))

\* f"chunk_{session_id}_{chunk_num:04d}" and record()'s f"{filename}.wav"
ChunkFile(sid, n) == StrChunk \o Strftime(sid) \o StrUnderscore \o FormatSeq(n) \o StrWav

\* f"chunk_{session_id}_*.wav": the text before and after the star
SessionPattern(sid) == [prefix |-> StrChunk \o Strftime(sid) \o StrUnderscore,
                        suffix |-> StrWav]

\* f"consolidated_{timestamp}.wav"
ConsolidatedFile(t) == StrConsolidated \o Strftime(t) \o StrWav

\* Path.glob with one star: the name starts with prefix and ends with suffix
Matches(name, pattern) ==
    /\ Len(name) >= Len(pattern.prefix) + Len(pattern.suffix)
    /\ SubSeq(name, 1, Len(pattern.prefix)) = pattern.prefix
    /\ SubSeq(name, Len(name) - Len(pattern.suffix) + 1, Len(name)) = pattern.suffix

Glob(dir, pattern) == {name \in DOMAIN dir : Matches(name, pattern)}

(***************************************************************************)
(* sorted(): ascending lexicographic order of the names, by character      *)
(* code.  Computed bucket by bucket on the i-th character.                 *)
(***************************************************************************)
SetMin(S) == CHOOSE x \in S : \A y \in S : x <= y

RECURSIVE SortFrom(_, _)
RECURSIVE SortBuckets(_, _, _)
SortBuckets(s, i, cs) ==
    IF cs = {} THEN <<>>
    ELSE LET c == SetMin(cs)
             InBucket(x) == x[i] = c
         IN  SortFrom(SelectSeq(s, InBucket), i + 1) \o SortBuckets(s, i, cs \ {c})

SortFrom(s, i) ==
    IF Len(s) <= 1 THEN s
    ELSE LET Ended(x) == Len(x) < i
             Longer(x) == Len(x) >= i
             rest == SelectSeq(s, Longer)
         IN  SelectSeq(s, Ended)
                 \o SortBuckets(rest, i, {rest[k][i] : k \in 1..Len(rest)})

Sorted(listing) == SortFrom(listing, 1)

(***************************************************************************)
(* np.concatenate: the buffers of a list, one after the other.             *)
(***************************************************************************)
RECURSIVE ConcatRange(_, _, _)
ConcatRange(list, lo, hi) ==
    IF lo > hi THEN <<>>
    ELSE IF lo = hi THEN list[lo]
    ELSE LET mid == (lo + hi) \div 2
         IN  ConcatRange(list, lo, mid) \o ConcatRange(list, mid + 1, hi)

Concatenate(list) == ConcatRange(list, 1, Len(list))

\* the orders in which the filesystem may list a set of names
Orders(S) ==
    {s \in [1..Cardinality(S) -> S] :
        \A i, j \in 1..Cardinality(S) : s[i] = s[j] => i = j}

\* every order of a directory of at most MaxChunks matching files
Listings(S) == IF Cardinality(S) <= MaxChunks THEN Orders(S) ELSE {}

\* the buffers the backend may deliver for chunk n: 1..MaxSamples samples
\* (one sample from chunk MaxChunks on), every sample of chunk n being n + 1
Buffers(n) ==
    {[i \in 1..len |-> n + 1] : len \in 1..(IF n < MaxChunks THEN MaxSamples ELSE 1)}

\* a file a write left unfinished: a proper prefix of the data
Partial(rate, data, k) == [rate |-> rate, data |-> SubSeq(data, 1, k), full |-> FALSE]
Full(rate, data) == [rate |-> rate, data |-> data, full |-> TRUE]

\* dir with name (over)written
WriteFile(dir, name, content) ==
    [n \in DOMAIN dir \cup {name} |-> IF n = name THEN content ELSE dir[n]]

\* a write of name makes it the most recently modified file
Touch(log, name) ==
    LET Other(n) == n # name IN SelectSeq(log, Other) \o <<name>>

\* dir without the names of S
Unlink(dir, S) == [n \in DOMAIN dir \ S |-> dir[n]]


(***************************************************************************)
(* AudioRecorder.continuous_record                                         *)
(***************************************************************************)
NoFiles == [n \in {} |-> 0]

\* the WhisperTranscriber instances
Adapters == 1..MaxAdapters

\* `if max_recordings and ...`: zero is falsy
Truthy(n) == n # 0

\* the positions inside the try block of continuous_record
TryPcs == {"loop_top", "rec", "write", "after_record", "callback", "incr", "check"}

InitRecorder ==
    /\ files = NoFiles
    /\ now = 0
    /\ pc = "start"
    /\ max_recordings \in -1..MaxCeiling
    /\ consolidate \in BOOLEAN
    /\ callback \in BOOLEAN
    /\ chunk_num = 0
    /\ session_id = 0
    /\ recording = <<>>
    /\ chunks = <<>>
    /\ data_list = <<>>
    /\ sample_rate = 0
    /\ output_path = <<>>
    /\ captures = 0
    /\ written = <<>>
    /\ reported = -1
    /\ interrupted = FALSE
    /\ record_failed = FALSE
    /\ removed = {}
    /\ rexc = "none"
    /\ result = [kind |-> "pending"]
    /\ prior = NoFiles
    /\ mtime = <<>>
    /\ sessions = 0

InitTranscriber ==
    /\ tpc = "idle"
    /\ self = 1
    /\ model = [a \in Adapters |-> "None"]
    /\ loads = [a \in Adapters |-> 0]
    /\ used = {}
    /\ texc = "none"
    /\ tfiles = NoFiles
    /\ audio_file = <<>>
    /\ save = FALSE
    /\ timestamp = 0
    /\ created = {}
    /\ calls = 0

\* nothing entered yet
NoChoice == [entered |-> FALSE, int |-> FALSE, n |-> 0]

\* no menu runs: the recorder and the transcribers are driven directly
InitMenu ==
    /\ mpc = "off"
    /\ chunk_duration = 0
    /\ max_chunks = 0
    /\ recordings = <<>>
    /\ choice = NoChoice
    /\ selected = <<>>
    /\ invalid = FALSE
    /\ transcribed = <<>>
    /\ deleted = {}
    /\ message = "none"
    /\ transcripts = <<>>

Init == InitRecorder /\ InitTranscriber /\ InitMenu

\* lines 75-109: continuous_record has no return statement, so whichever
\* way it ends without an exception its caller gets None
ReturnValue == [kind |-> "None"]

\* line 75: continuous_record(max_recordings=mr, consolidate=cons,
\* callback=cb) is called on the recorder; the history of the session that
\* went before is put away
CallContinuousRecord(mr, cons, cb) ==
    /\ pc \in {"idle", "returned", "raised"}
    /\ sessions < MaxSessions
    /\ pc' = "start"
    /\ max_recordings' = mr
    /\ consolidate' = cons
    /\ callback' = cb
    /\ chunk_num' = 0
    /\ recording' = <<>>
    /\ chunks' = <<>>
    /\ data_list' = <<>>
    /\ sample_rate' = 0
    /\ output_path' = <<>>
    /\ captures' = 0
    /\ written' = <<>>
    /\ reported' = -1
    /\ interrupted' = FALSE
    /\ record_failed' = FALSE
    /\ removed' = {}
    /\ rexc' = "none"
    /\ result' = [kind |-> "pending"]
    /\ UNCHANGED <<files, now, session_id, prior, mtime, sessions>>

\* lines 84-86: chunk_num = 0, session_id = the time of the clock
StartSession ==
    /\ pc = "start"
    /\ pc' = "loop_top"
    /\ chunk_num' = 0
    /\ \E t \in now..MaxClock :
        /\ now' = t
        /\ session_id' = t
    /\ prior' = files
    /\ sessions' = sessions + 1
    /\ UNCHANGED <<transVars, menuVars, rexc, result, mtime, files, max_recordings, consolidate, callback, recording,
                   chunks, data_list, sample_rate, output_path, captures, written,
                   reported, interrupted, record_failed, removed>>

\* the loop of a session without a ceiling is followed for MaxChunks
\* chunks; with a ceiling it is followed until the ceiling ends it
CanCapture ==
    \/ chunk_num < MaxChunks
    \/ Truthy(max_recordings) /\ chunk_num < max_recordings

\* lines 91-93, 61: the loop body begins, record() starts the capture (sd.rec)
RecStart ==
    /\ pc = "loop_top"
    /\ CanCapture
    /\ pc' = "rec"
    /\ captures' = captures + 1
    /\ UNCHANGED <<transVars, menuVars, sessVars, files, now, max_recordings, consolidate, callback, chunk_num,
                   session_id, recording, chunks, data_list, sample_rate,
                   output_path, written, reported, interrupted, record_failed,
                   removed>>

\* the capture fails after the chunk file was opened for writing
RecFailAfterOpen ==
    /\ pc \in {"loop_top", "rec"}
    /\ CanCapture
    /\ files' = WriteFile(files, ChunkFile(session_id, chunk_num),
                          Partial(SampleRate, <<>>, 0))
    /\ pc' = "raised"
    /\ record_failed' = TRUE
    /\ rexc' = "capture"
    /\ UNCHANGED <<transVars, menuVars, result, prior, mtime, sessions, now, max_recordings, consolidate, callback, chunk_num,
                   session_id, recording, chunks, data_list, sample_rate,
                   output_path, captures, written, reported, interrupted, removed>>

\* lines 61-68: sd.rec or sd.wait raises; nothing is caught, so the
\* exception leaves record() and continuous_record()
RecFail ==
    /\ pc \in {"loop_top", "rec"}
    /\ CanCapture
    /\ pc' = "raised"
    /\ record_failed' = TRUE
    /\ rexc' = "capture"
    /\ UNCHANGED <<transVars, menuVars, result, prior, mtime, sessions, files, now, max_recordings, consolidate, callback, chunk_num,
                   session_id, recording, chunks, data_list, sample_rate,
                   output_path, captures, written, reported, interrupted, removed>>

\* line 68: sd.wait returns, the buffer is complete
RecWait ==
    /\ pc = "rec"
    /\ \E buf \in Buffers(chunk_num) : recording' = buf
    /\ pc' = "write"
    /\ UNCHANGED <<transVars, menuVars, sessVars, files, now, max_recordings, consolidate, callback, chunk_num,
                   session_id, chunks, data_list, sample_rate, output_path,
                   captures, written, reported, interrupted, record_failed,
                   removed>>

\* line 70: write(str(filepath), self.sample_rate, recording)
WriteChunk ==
    /\ pc = "write"
    /\ files' = WriteFile(files, ChunkFile(session_id, chunk_num),
                          Full(SampleRate, recording))
    /\ written' = Append(written, chunk_num)
    /\ pc' = "after_record"
    /\ UNCHANGED <<transVars, menuVars, sessVars, now, max_recordings, consolidate, callback, chunk_num,
                   session_id, recording, chunks, data_list, sample_rate,
                   output_path, captures, reported, interrupted, record_failed,
                   removed>>

\* line 70 raises (disk full, ...): the file is absent or left unfinished
WriteChunkFail ==
    /\ pc = "write"
    /\ \/ UNCHANGED files
       \/ \E k \in 0..(Len(recording) - 1) :
            files' = WriteFile(files, ChunkFile(session_id, chunk_num),
                               Partial(SampleRate, recording, k))
    /\ pc' = "raised"
    /\ record_failed' = TRUE
    /\ rexc' = "write"
    /\ UNCHANGED <<transVars, menuVars, result, prior, mtime, sessions, now, max_recordings, consolidate, callback, chunk_num,
                   session_id, recording, chunks, data_list, sample_rate,
                   output_path, captures, written, reported, interrupted, removed>>

\* lines 95-96: `if callback: callback(filepath)`
CallCallback ==
    /\ pc = "after_record"
    /\ pc' = IF callback THEN "callback" ELSE "incr"
    /\ UNCHANGED <<transVars, menuVars, sessVars, files, now, max_recordings, consolidate, callback, chunk_num,
                   session_id, recording, chunks, data_list, sample_rate,
                   output_path, captures, written, reported, interrupted,
                   record_failed, removed>>

\* line 96: the callback returns
CallbackReturn ==
    /\ pc = "callback"
    /\ pc' = "incr"
    /\ UNCHANGED <<transVars, menuVars, sessVars, files, now, max_recordings, consolidate, callback, chunk_num,
                   session_id, recording, chunks, data_list, sample_rate,
                   output_path, captures, written, reported, interrupted,
                   record_failed, removed>>

\* where an exception raised by callback(filepath) goes: line 96 stands in
\* `try: ... except KeyboardInterrupt`, which catches no other exception
CallbackRaisePc == "raised"

\* line 96: the callback raises
CallbackRaise ==
    /\ pc = "callback"
    /\ pc' = CallbackRaisePc
    /\ rexc' = "callback"
    /\ UNCHANGED <<transVars, menuVars, result, prior, mtime, sessions, files, now, max_recordings, consolidate, callback, chunk_num,
                   session_id, recording, chunks, data_list, sample_rate,
                   output_path, captures, written, reported, interrupted,
                   record_failed, removed>>

NextChunkNumSkip(n) == n + 2

\* line 98: chunk_num += 1
NextChunkNum(n) == n + 1

Increment ==
    /\ pc = "incr"
    /\ chunk_num' = NextChunkNum(chunk_num)
    /\ pc' = "check"
    /\ UNCHANGED <<transVars, menuVars, sessVars, files, now, max_recordings, consolidate, callback, session_id,
                   recording, chunks, data_list, sample_rate, output_path,
                   captures, written, reported, interrupted, record_failed,
                   removed>>

CeilingReachedLate == Truthy(max_recordings) /\ chunk_num > max_recordings

\* line 101: `if max_recordings and chunk_num >= max_recordings`
CeilingReached == Truthy(max_recordings) /\ chunk_num >= max_recordings

\* lines 101-102: break leaves the loop and the try statement; nothing
\* follows it, so continuous_record returns
CheckCeiling ==
    /\ pc = "check"
    /\ pc' = IF CeilingReached THEN "returned" ELSE "loop_top"
    /\ result' = IF CeilingReached THEN ReturnValue ELSE result
    /\ UNCHANGED <<transVars, menuVars, rexc, prior, mtime, sessions, files, now, max_recordings, consolidate, callback, chunk_num,
                   session_id, recording, chunks, data_list, sample_rate,
                   output_path, captures, written, reported, interrupted,
                   record_failed, removed>>

\* lines 104-105: Ctrl+C raises KeyboardInterrupt at whatever point of the
\* try block the main thread has reached; the handler prints chunk_num.
\* An interrupt that strikes inside write() leaves no file or an unfinished one.
KeyboardInterrupt ==
    /\ pc \in TryPcs
    /\ \/ UNCHANGED files
       \/ /\ pc = "write"
          /\ \E k \in 0..(Len(recording) - 1) :
               files' = WriteFile(files, ChunkFile(session_id, chunk_num),
                                  Partial(SampleRate, recording, k))
    /\ pc' = "handler"
    /\ interrupted' = TRUE
    /\ reported' = chunk_num
    /\ UNCHANGED <<transVars, menuVars, sessVars, now, max_recordings, consolidate, callback, chunk_num,
                   session_id, recording, chunks, data_list, sample_rate,
                   output_path, captures, written, record_failed, removed>>

\* line 106: `if consolidate:` is false, the handler ends
HandlerSkip ==
    /\ pc = "handler"
    /\ ~consolidate
    /\ pc' = "returned"
    /\ result' = ReturnValue
    /\ UNCHANGED <<transVars, menuVars, rexc, prior, mtime, sessions, files, now, max_recordings, consolidate, callback, chunk_num,
                   session_id, recording, chunks, data_list, sample_rate,
                   output_path, captures, written, reported, interrupted,
                   record_failed, removed>>

(***************************************************************************)
(* AudioRecorder._consolidate_recordings(pattern), remove_chunks=True      *)
(***************************************************************************)
\* line 111: the default of remove_chunks, which continuous_record keeps
remove_chunks == TRUE

NoChunksPcGoesOn == "cons_write"

\* lines 124-126: `if not chunks:` prints and returns
NoChunksPc == "returned"

\* lines 106-109, 123-128: glob, sort, and the empty case
GlobWith(listing) ==
    /\ pc = "handler"
    /\ consolidate
    /\ chunks' = Sorted(listing)
    /\ pc' = IF listing = <<>> THEN NoChunksPc ELSE "cons_read"
    /\ result' = IF listing = <<>> THEN ReturnValue ELSE result
    /\ UNCHANGED <<transVars, menuVars, rexc, prior, mtime, sessions, files, now, max_recordings, consolidate, callback, chunk_num,
                   session_id, recording, data_list, sample_rate, output_path,
                   captures, written, reported, interrupted, record_failed,
                   removed>>

ConsGlob ==
    \E listing \in Listings(Glob(files, SessionPattern(session_id))) :
        GlobWith(listing)

OutputRateLast(rates) == rates[Len(rates)]

\* lines 136-139: `if sample_rate is None: sample_rate = sr`; a later rate
\* that differs is only warned about
OutputRate(rates) == rates[1]

\* lines 131-141: read every chunk; the first rate read is kept
ConsRead ==
    /\ pc = "cons_read"
    /\ data_list' = [i \in 1..Len(chunks) |-> files[chunks[i]].data]
    /\ sample_rate' = OutputRate([i \in 1..Len(chunks) |-> files[chunks[i]].rate])
    /\ pc' = "cons_write"
    /\ UNCHANGED <<transVars, menuVars, sessVars, files, now, max_recordings, consolidate, callback, chunk_num,
                   session_id, recording, chunks, output_path, captures, written,
                   reported, interrupted, record_failed, removed>>

\* line 135: read() of an unfinished chunk file may raise instead
ConsReadFail ==
    /\ pc = "cons_read"
    /\ \E i \in 1..Len(chunks) : ~files[chunks[i]].full
    /\ pc' = "raised"
    /\ rexc' = "read"
    /\ UNCHANGED <<transVars, menuVars, result, prior, mtime, sessions, files, now, max_recordings, consolidate, callback, chunk_num,
                   session_id, recording, chunks, data_list, sample_rate,
                   output_path, captures, written, reported, interrupted,
                   record_failed, removed>>

\* lines 147-158: concatenate, name the output by the time, write it
ConsWrite ==
    /\ pc = "cons_write"
    /\ \E t \in now..MaxClock :
        /\ now' = t
        /\ output_path' = ConsolidatedFile(t)
        /\ files' = WriteFile(files, ConsolidatedFile(t),
                              Full(sample_rate, Concatenate(data_list)))
        /\ mtime' = Touch(mtime, ConsolidatedFile(t))
    /\ pc' = "cons_unlink"
    /\ UNCHANGED <<transVars, menuVars, rexc, result, prior, sessions, max_recordings, consolidate, callback, chunk_num, session_id,
                   recording, chunks, data_list, sample_rate, captures, written,
                   reported, interrupted, record_failed, removed>>

WriteFailPcSwallowed == "cons_unlink"

\* line 157: an exception of write() is not caught: it leaves
\* _consolidate_recordings before the cleanup of lines 161-164
WriteFailPc == "raised"

\* line 157 raises: the output file is absent or left unfinished
ConsWriteFail ==
    /\ pc = "cons_write"
    /\ \E t \in now..MaxClock :
        /\ now' = t
        /\ output_path' = ConsolidatedFile(t)
        /\ \/ UNCHANGED <<files, mtime>>
           \/ \E k \in 0..(Len(Concatenate(data_list)) - 1) :
                /\ files' = WriteFile(files, ConsolidatedFile(t),
                                      Partial(sample_rate, Concatenate(data_list), k))
                /\ mtime' = Touch(mtime, ConsolidatedFile(t))
    /\ pc' = WriteFailPc
    /\ rexc' = "output"
    /\ UNCHANGED <<transVars, menuVars, result, prior, sessions, max_recordings, consolidate, callback, chunk_num, session_id,
                   recording, chunks, data_list, sample_rate, captures, written,
                   reported, interrupted, record_failed, removed>>

\* the names chunks[1..k]
FirstChunks(k) == {chunks[i] : i \in 1..k}

\* lines 161-166: every chunk is unlinked, the output path is returned
ConsUnlink ==
    /\ pc = "cons_unlink"
    /\ remove_chunks
    /\ files' = Unlink(files, FirstChunks(Len(chunks)))
    /\ removed' = removed \cup FirstChunks(Len(chunks))
    /\ pc' = "returned"
    /\ result' = ReturnValue
    /\ UNCHANGED <<transVars, menuVars, rexc, prior, mtime, sessions, now, max_recordings, consolidate, callback, chunk_num,
                   session_id, recording, chunks, data_list, sample_rate,
                   output_path, captures, written, reported, interrupted,
                   record_failed>>

\* lines 162-163: the loop is cut short after k unlinks (an OSError of
\* unlink, or a second Ctrl+C, which the handler does not catch)
ConsUnlinkFail ==
    /\ pc = "cons_unlink"
    /\ remove_chunks
    /\ \E k \in 0..(Len(chunks) - 1) :
        /\ files' = Unlink(files, FirstChunks(k))
        /\ removed' = removed \cup FirstChunks(k)
    /\ pc' = "raised"
    /\ rexc' = "unlink"
    /\ UNCHANGED <<transVars, menuVars, result, prior, mtime, sessions, now, max_recordings, consolidate, callback, chunk_num,
                   session_id, recording, chunks, data_list, sample_rate,
                   output_path, captures, written, reported, interrupted,
                   record_failed>>

Next ==
    \/ StartSession
    \/ RecStart
    \/ RecFail
    \/ RecWait
    \/ WriteChunk
    \/ WriteChunkFail
    \/ CallCallback
    \/ CallbackReturn
    \/ CallbackRaise
    \/ Increment
    \/ CheckCeiling
    \/ KeyboardInterrupt
    \/ HandlerSkip
    \/ ConsGlob
    \/ ConsRead
    \/ ConsReadFail
    \/ ConsWrite
    \/ ConsWriteFail
    \/ ConsUnlink
    \/ ConsUnlinkFail

Spec == Init /\ [][Next]_vars


(***************************************************************************)
(* Several sessions on one AudioRecorder, one after the other, in one      *)
(* output directory.                                                       *)
(***************************************************************************)
\* continuous_record is called again, with the arguments of the call
\* before, once that call is over
NewSession ==
    /\ mpc = "off"
    /\ CallContinuousRecord(max_recordings, consolidate, callback)
    /\ UNCHANGED <<transVars, menuVars>>

\* the sessions run without a failure of the backend, the disk or the
\* callback; each ends at its ceiling or by a stop request
NextSessions ==
    \/ NewSession
    \/ StartSession
    \/ RecStart
    \/ RecWait
    \/ WriteChunk
    \/ CallCallback
    \/ CallbackReturn
    \/ Increment
    \/ CheckCeiling
    \/ KeyboardInterrupt
    \/ HandlerSkip
    \/ ConsGlob
    \/ ConsRead
    \/ ConsWrite
    \/ ConsUnlink

SpecSessions == Init /\ [][NextSessions]_vars

(***************************************************************************)
(* WhisperTranscriber.transcribe and _save_transcript                      *)
(***************************************************************************)
\* the audio files handed to transcribe: a consolidated recording, a chunk
AudioFiles == {ConsolidatedFile(0), ChunkFile(0, 0)}

\* Path(audio_file).stem: the name without its last suffix
Stem(name) == SubSeq(name, 1, Len(name) - Len(StrWav))

\* f"transcript_{audio_path.stem}_{timestamp}.txt"
TxtFile(audio, t) ==
    StrTranscript \o Stem(audio) \o StrUnderscore \o Strftime(t) \o StrTxt

\* f"transcript_{audio_path.stem}_{timestamp}.json"
JsonFile(audio, t) ==
    StrTranscript \o Stem(audio) \o StrUnderscore \o Strftime(t) \o StrJson

\* a transcript file: full once its content is written to the end
Transcript(full) == [full |-> full]

NeedsLoadAlways(a) == TRUE

\* line 45: `if self.model is None`
NeedsLoad(a) == model[a] = "None"

\* lines 34, 45: transcribe(audio_file, save) is called on instance a
Transcribe(a, f, sv) ==
    /\ tpc = "idle"
    /\ calls < MaxCalls
    /\ calls' = calls + 1
    /\ self' = a
    /\ used' = used \cup {a}
    /\ audio_file' = f
    /\ save' = sv
    /\ created' = {}
    /\ texc' = "none"
    /\ tpc' = IF NeedsLoad(a) THEN "load" ELSE "engine"
    /\ UNCHANGED <<model, loads, tfiles, timestamp>>

\* transcribe is called on some instance, with some file
TransCall ==
    /\ \E a \in Adapters, f \in AudioFiles, sv \in BOOLEAN : Transcribe(a, f, sv)
    /\ UNCHANGED <<recVars, menuVars>>

\* lines 46, 30-32: the model is loaded on first use
LoadModel ==
    /\ tpc = "load"
    /\ model' = [model EXCEPT ![self] = "loaded"]
    /\ loads' = [loads EXCEPT ![self] = @ + 1]
    /\ tpc' = "engine"
    /\ UNCHANGED <<recVars, menuVars, self, used, texc, tfiles, audio_file, save, timestamp, created, calls>>

\* line 31: load_model raises
LoadModelFail ==
    /\ tpc = "load"
    /\ tpc' = "raised"
    /\ texc' = "load"
    /\ UNCHANGED <<recVars, menuVars, self, loads, used, model, tfiles, audio_file, save, timestamp, created,
                   calls>>

\* lines 49-58: the engine returns a result; without save it is returned
EngineReturn ==
    /\ tpc = "engine"
    /\ tpc' = IF save THEN "save" ELSE "returned"
    /\ UNCHANGED <<recVars, menuVars, self, loads, used, texc, model, tfiles, audio_file, save, timestamp, created,
                   calls>>

EngineFailPcSaves == "save"

\* lines 49-53: nothing in transcribe catches an exception of the engine
\* call, so it leaves transcribe before line 55
EngineFailPc == "raised"

\* line 49: the engine raises
EngineFail ==
    /\ tpc = "engine"
    /\ tpc' = EngineFailPc
    /\ texc' = "engine"
    /\ UNCHANGED <<recVars, menuVars, self, loads, used, model, tfiles, audio_file, save, timestamp, created,
                   calls>>

\* lines 68-75: the timestamp is taken, open(txt_path, 'w') creates the file
OpenTxt ==
    /\ tpc = "save"
    /\ \E t \in now..MaxClock :
        /\ now' = t
        /\ timestamp' = t
        /\ tfiles' = WriteFile(tfiles, TxtFile(audio_file, t), Transcript(FALSE))
        /\ created' = created \cup {TxtFile(audio_file, t)}
    /\ tpc' = "write_txt"
    /\ UNCHANGED <<recState, menuVars, self, loads, used, texc, model, audio_file, save, calls>>

\* line 75: open raises, no file is created
OpenTxtFail ==
    /\ tpc = "save"
    /\ tpc' = "raised"
    /\ texc' = "save"
    /\ UNCHANGED <<recVars, menuVars, self, loads, used, model, tfiles, audio_file, save, timestamp, created,
                   calls>>

\* lines 76-79: the header and the text are written, the file is closed
WriteTxt ==
    /\ tpc = "write_txt"
    /\ tfiles' = WriteFile(tfiles, TxtFile(audio_file, timestamp), Transcript(TRUE))
    /\ tpc' = "open_json"
    /\ UNCHANGED <<recVars, menuVars, self, loads, used, texc, model, audio_file, save, timestamp, created, calls>>

\* lines 76-79: a write raises; `with` closes the file, nothing removes it
WriteTxtFail ==
    /\ tpc = "write_txt"
    /\ tpc' = "raised"
    /\ texc' = "save"
    /\ UNCHANGED <<recVars, menuVars, self, loads, used, model, tfiles, audio_file, save, timestamp, created,
                   calls>>

\* lines 82-85: open(json_path, 'w') creates the file
OpenJson ==
    /\ tpc = "open_json"
    /\ tfiles' = WriteFile(tfiles, JsonFile(audio_file, timestamp), Transcript(FALSE))
    /\ created' = created \cup {JsonFile(audio_file, timestamp)}
    /\ tpc' = "dump_json"
    /\ UNCHANGED <<recVars, menuVars, self, loads, used, texc, model, audio_file, save, timestamp, calls>>

\* line 85: open raises; the text file stays
OpenJsonFail ==
    /\ tpc = "open_json"
    /\ tpc' = "raised"
    /\ texc' = "save"
    /\ UNCHANGED <<recVars, menuVars, self, loads, used, model, tfiles, audio_file, save, timestamp, created,
                   calls>>

\* lines 86-90: dump writes the result, both paths are returned
DumpJson ==
    /\ tpc = "dump_json"
    /\ tfiles' = WriteFile(tfiles, JsonFile(audio_file, timestamp), Transcript(TRUE))
    /\ tpc' = "returned"
    /\ UNCHANGED <<recVars, menuVars, self, loads, used, texc, model, audio_file, save, timestamp, created, calls>>

\* line 86: dump raises (a value json cannot encode, a full disk)
DumpJsonFail ==
    /\ tpc = "dump_json"
    /\ tpc' = "raised"
    /\ texc' = "save"
    /\ UNCHANGED <<recVars, menuVars, self, loads, used, model, tfiles, audio_file, save, timestamp, created,
                   calls>>

\* the caller has the result or the exception; the adapter is idle again
TransDone ==
    /\ tpc \in {"returned", "raised"}
    /\ tpc' = "idle"
    /\ UNCHANGED <<recVars, menuVars, self, loads, used, texc, model, tfiles, audio_file, save, timestamp, created,
                   calls>>

InitTranscribe ==
    /\ InitRecorder
    /\ max_recordings = 0
    /\ consolidate
    /\ ~callback
    /\ InitTranscriber
    /\ InitMenu

NextTranscribe ==
    \/ TransCall
    \/ LoadModel
    \/ LoadModelFail
    \/ EngineReturn
    \/ EngineFail
    \/ OpenTxt
    \/ OpenTxtFail
    \/ WriteTxt
    \/ WriteTxtFail
    \/ OpenJson
    \/ OpenJsonFail
    \/ DumpJson
    \/ DumpJsonFail
    \/ TransDone

SpecTranscribe == InitTranscribe /\ [][NextTranscribe]_vars

(***************************************************************************)
(* Consolidation of a recorded session, whatever its length.  The          *)
(* directory holds the chunk files of one session of K chunks, stopped by  *)
(* Ctrl+C: K is small, or one more than the numbers PadWidth digits hold.  *)
(***************************************************************************)
RECURSIVE Pow10(_)
Pow10(k) == IF k = 0 THEN 1 ELSE 10 * Pow10(k - 1)

\* the shortest session with a sequence number of more than PadWidth digits
LongSession == Pow10(PadWidth) + 1

RECURSIVE ParseDigits(_, _, _)
ParseDigits(name, i, j) ==
    IF i > j THEN 0 ELSE 10 * ParseDigits(name, i, j - 1) + (name[j] - 48)

\* the sequence number in the name of a chunk file of session sid
SeqOf(name, sid) ==
    ParseDigits(name, Len(SessionPattern(sid).prefix) + 1, Len(name) - Len(StrWav))

\* the chunk files of a session of K chunks, chunk n holding lens[n] samples
SessionDir(sid, K, lens) ==
    [name \in {ChunkFile(sid, n) : n \in 0..(K - 1)} |->
        Full(SampleRate, [i \in 1..lens[SeqOf(name, sid)] |-> SeqOf(name, sid) + 1])]

SessionLens(K) ==
    IF K <= MaxChunks THEN [0..(K - 1) -> 1..MaxSamples] ELSE {[n \in 0..(K - 1) |-> 1]}

SessionDirs ==
    UNION {{SessionDir(0, K, lens) : lens \in SessionLens(K)} :
              K \in (1..MaxChunks) \cup {LongSession}}

\* _consolidate_recordings is called for session 0, whose chunk files are
\* one of the directories dirs
InitConsolidate(dirs) ==
    /\ files \in dirs
    /\ now = 0
    /\ pc = "handler"
    /\ max_recordings = 0
    /\ consolidate = TRUE
    /\ callback = FALSE
    /\ chunk_num = Cardinality(DOMAIN files)
    /\ session_id = 0
    /\ recording = <<>>
    /\ chunks = <<>>
    /\ data_list = <<>>
    /\ sample_rate = 0
    /\ output_path = <<>>
    /\ captures = Cardinality(DOMAIN files)
    /\ written = [i \in 1..Cardinality(DOMAIN files) |-> i - 1]
    /\ reported = Cardinality(DOMAIN files)
    /\ interrupted = TRUE
    /\ record_failed = FALSE
    /\ removed = {}
    /\ rexc = "none"
    /\ result = [kind |-> "pending"]
    /\ prior = files
    /\ mtime = <<>>
    /\ sessions = 1
    /\ InitTranscriber
    /\ InitMenu

InitOrder == InitConsolidate(SessionDirs)

\* the filesystem lists the session's files newest first
ConsGlobReversed ==
    \E K \in {Cardinality(Glob(files, SessionPattern(session_id)))} :
        /\ Glob(files, SessionPattern(session_id))
              = {ChunkFile(session_id, n) : n \in 0..(K - 1)}
        /\ GlobWith([i \in 1..K |-> ChunkFile(session_id, K - i)])

NextOrder ==
    \/ ConsGlob
    \/ ConsGlobReversed
    \/ ConsRead
    \/ ConsWrite
    \/ ConsUnlink

SpecOrder == InitOrder /\ [][NextOrder]_vars

(***************************************************************************)
(* Consolidation of chunk files whose sample rates differ.                 *)
(***************************************************************************)
\* the sample rates a chunk file may have: the recorder's and its double
Rates == {SampleRate, 2 * SampleRate}

\* the chunk files of a session of K chunks, chunk n holding lens[n] samples
\* at the rate rates[n]
RatesDir(sid, K, lens, rates) ==
    [name \in {ChunkFile(sid, n) : n \in 0..(K - 1)} |->
        Full(rates[SeqOf(name, sid)],
             [i \in 1..lens[SeqOf(name, sid)] |-> SeqOf(name, sid) + 1])]

RatesDirs ==
    UNION {{RatesDir(0, K, lens, rates) :
                lens \in [0..(K - 1) -> 1..MaxSamples], rates \in [0..(K - 1) -> Rates]} :
              K \in 1..MaxChunks}

InitRates == InitConsolidate(RatesDirs)

NextRates ==
    \/ ConsGlob
    \/ ConsRead
    \/ ConsWrite
    \/ ConsWriteFail
    \/ ConsUnlink
    \/ ConsUnlinkFail

SpecRates == InitRates /\ [][NextRates]_vars


(***************************************************************************)
(* WhisperNotetaker (main.py): the handlers of the menu that record,       *)
(* transcribe and delete recordings.  The recordings directory keeps what   *)
(* earlier runs of the program left in it.                                 *)
(***************************************************************************)
\* line 75: continuous_record(..., max_recordings=60)
DefaultMaxRecordings == 60
\* line 163: max_duration = 3600
MaxDuration == 3600

\* self.transcriber, the one instance the application makes (lines 31-35)
AppTranscriber == SetMin(Adapters)

\* "consolidated_*.wav"
ConsolidatedPattern == [prefix |-> StrConsolidated, suffix |-> StrWav]

\* the sequence s, last element first
Reverse(s) == [i \in 1..Len(s) |-> s[Len(s) + 1 - i]]

\* sorted(recordings_path.glob("consolidated_*.wav"),
\*        key=lambda x: x.stat().st_mtime, reverse=True)
Recordings ==
    LET Listed(n) == n \in Glob(files, ConsolidatedPattern)
    IN  Reverse(SelectSeq(mtime, Listed))

\* what the user may type at "Enter number": something int() rejects, or
\* a number from -1 to MaxChoice
Choices ==
    {[entered |-> TRUE, int |-> FALSE, n |-> 0]}
        \cup {[entered |-> TRUE, int |-> TRUE, n |-> k] : k \in -1..MaxChoice}

\* str.isdigit(): digits only, so no sign
IsDigit(c) == c.int /\ c.n >= 0

\* list[i] raises IndexError unless -len(list) <= i < len(list)
InRange(list, i) == -Len(list) <= i /\ i < Len(list)

\* list[i] of Python: i counts from 0, a negative i counts from the end
Index(list, i) == IF i >= 0 THEN list[i + 1] ELSE list[Len(list) + i + 1]

\* lines 244-271 of _transcribe_recording: the listing, the number entered,
\* `selected = recordings[int(choice) - 1]` and the call of transcribe;
\* IndexError and ValueError print "Invalid selection"
TranscribeRecordingSelect ==
    /\ mpc = "menu"
    /\ recordings' = Recordings
    /\ IF Recordings = <<>>
       THEN /\ choice' = NoChoice
            /\ selected' = <<>>
            /\ invalid' = FALSE
            /\ UNCHANGED <<mpc, transcribed, transVars>>
       ELSE \E c \in Choices :
            /\ choice' = c
            /\ IF c.int /\ InRange(Recordings, c.n - 1)
               THEN /\ selected' = Index(Recordings, c.n - 1)
                    /\ invalid' = FALSE
                    /\ Transcribe(AppTranscriber, Index(Recordings, c.n - 1), TRUE)
                    /\ transcribed' = Append(transcribed, Index(Recordings, c.n - 1))
                    /\ mpc' = "transcribing"
               ELSE /\ selected' = <<>>
                    /\ invalid' = TRUE
                    /\ UNCHANGED <<mpc, transcribed, transVars>>
    /\ UNCHANGED <<recVars, chunk_duration, max_chunks, deleted>>
    /\ UNCHANGED <<message, transcripts>>

\* lines 271-286: transcribe returned, "Delete this recording?" is asked;
\* or it raised, and the exception ends the handler
TranscribeRecordingDone ==
    /\ mpc = "transcribing"
    /\ tpc \in {"returned", "raised"}
    /\ mpc' = IF tpc = "returned" THEN "delete_prompt" ELSE "menu"
    /\ tpc' = "idle"
    /\ UNCHANGED <<recVars, self, model, loads, used, texc, tfiles, audio_file,
                   save, timestamp, created, calls, chunk_duration, max_chunks,
                   recordings, choice, selected, invalid, transcribed, deleted>>
    /\ UNCHANGED <<message, transcripts>>

\* lines 286-289: on 'y' selected.unlink()
TranscribeRecordingDelete ==
    /\ mpc = "delete_prompt"
    /\ \E yes \in BOOLEAN :
        IF yes
        THEN /\ files' = Unlink(files, {selected})
             /\ deleted' = deleted \cup {selected}
        ELSE UNCHANGED <<files, deleted>>
    /\ mpc' = "menu"
    /\ UNCHANGED <<now, pc, max_recordings, consolidate, callback, chunk_num,
                   session_id, recording, chunks, data_list, sample_rate,
                   output_path, captures, written, reported, interrupted,
                   record_failed, removed, sessVars, transVars, chunk_duration,
                   max_chunks, recordings, choice, selected, invalid, transcribed>>
    /\ UNCHANGED <<message, transcripts>>

\* lines 341-366 of _delete_recording: the listing, the number entered;
\* under `if choice.isdigit()`, `selected = recordings[int(choice) - 1]`
DeleteRecordingSelect ==
    /\ mpc = "menu"
    /\ recordings' = Recordings
    /\ IF Recordings = <<>>
       THEN /\ choice' = NoChoice
            /\ selected' = <<>>
            /\ invalid' = FALSE
            /\ UNCHANGED mpc
       ELSE \E c \in Choices :
            /\ choice' = c
            /\ IF ~IsDigit(c)
               THEN /\ selected' = <<>>
                    /\ invalid' = FALSE
                    /\ UNCHANGED mpc
               ELSE IF InRange(Recordings, c.n - 1)
               THEN /\ selected' = Index(Recordings, c.n - 1)
                    /\ invalid' = FALSE
                    /\ mpc' = "confirm"
               ELSE /\ selected' = <<>>
                    /\ invalid' = TRUE
                    /\ UNCHANGED mpc
    /\ UNCHANGED <<recVars, transVars, chunk_duration, max_chunks, transcribed,
                   deleted>>
    /\ UNCHANGED <<message, transcripts>>

\* lines 366-372: on 'y' selected.unlink(), else "Cancelled"
DeleteRecordingConfirm ==
    /\ mpc = "confirm"
    /\ \E yes \in BOOLEAN :
        IF yes
        THEN /\ files' = Unlink(files, {selected})
             /\ deleted' = deleted \cup {selected}
        ELSE UNCHANGED <<files, deleted>>
    /\ mpc' = "menu"
    /\ UNCHANGED <<now, pc, max_recordings, consolidate, callback, chunk_num,
                   session_id, recording, chunks, data_list, sample_rate,
                   output_path, captures, written, reported, interrupted,
                   record_failed, removed, sessVars, transVars, chunk_duration,
                   max_chunks, recordings, choice, selected, invalid, transcribed>>
    /\ UNCHANGED <<message, transcripts>>

\* the chunk durations the user may enter, in seconds: a minute and an hour
ChunkDurations == {60, MaxDuration}

\* lines 158-180 of _start_recording_session: the duration is entered,
\* max_chunks is computed and announced, and continuous_record is called
\* with chunk_duration, consolidate=True and callback=None: max_recordings
\* keeps its default
StartRecordingSession ==
    /\ mpc = "menu"
    /\ sessions < MaxMenuSessions
    /\ \E d \in ChunkDurations :
        /\ chunk_duration' = d
        /\ max_chunks' = MaxDuration \div d
    /\ CallContinuousRecord(DefaultMaxRecordings, TRUE, FALSE)
    /\ mpc' = "recording"
    /\ UNCHANGED <<transVars, recordings, choice, selected, invalid, transcribed,
                   deleted>>
    /\ UNCHANGED <<message, transcripts>>

\* lines 182-200: continuous_record returned; "Transcribe now?" is asked
\* and on 'y' the consolidated file modified last is passed to transcribe
SessionComplete ==
    /\ mpc = "recording"
    /\ pc = "returned"
    /\ \E yes \in BOOLEAN :
        IF yes /\ Recordings # <<>>
        THEN /\ Transcribe(AppTranscriber, Recordings[1], TRUE)
             /\ transcribed' = Append(transcribed, Recordings[1])
             /\ mpc' = "transcribing_now"
        ELSE /\ mpc' = "menu"
             /\ UNCHANGED <<transVars, transcribed>>
    /\ UNCHANGED <<recVars, chunk_duration, max_chunks, recordings, choice,
                   selected, invalid, deleted>>
    /\ UNCHANGED <<message, transcripts>>

\* lines 200-212: transcribe returned or raised; the handler ends
TranscribeNowDone ==
    /\ mpc = "transcribing_now"
    /\ tpc \in {"returned", "raised"}
    /\ mpc' = "menu"
    /\ tpc' = "idle"
    /\ UNCHANGED <<recVars, self, model, loads, used, texc, tfiles, audio_file,
                   save, timestamp, created, calls, chunk_duration, max_chunks,
                   recordings, choice, selected, invalid, transcribed, deleted>>
    /\ UNCHANGED <<message, transcripts>>

\* the consolidated recordings earlier runs made at the times of S
PriorDir(S) == [n \in {ConsolidatedFile(u) : u \in S} |-> Full(SampleRate, <<0>>)]

\* the application shows its menu; output_dir holds the recordings that
\* earlier runs, all over before this one began, have left
InitApp ==
    /\ now \in 0..MaxClock
    /\ \E S \in SUBSET (0..(now - 1)) :
        /\ files = PriorDir(S)
        /\ \E listing \in Orders(DOMAIN PriorDir(S)) : mtime = Sorted(listing)
    /\ pc = "idle"
    /\ max_recordings = DefaultMaxRecordings
    /\ consolidate = TRUE
    /\ callback = FALSE
    /\ chunk_num = 0
    /\ session_id = 0
    /\ recording = <<>>
    /\ chunks = <<>>
    /\ data_list = <<>>
    /\ sample_rate = 0
    /\ output_path = <<>>
    /\ captures = 0
    /\ written = <<>>
    /\ reported = -1
    /\ interrupted = FALSE
    /\ record_failed = FALSE
    /\ removed = {}
    /\ rexc = "none"
    /\ result = [kind |-> "pending"]
    /\ prior = files
    /\ sessions = 0
    /\ InitTranscriber
    /\ mpc = "menu"
    /\ chunk_duration = 0
    /\ max_chunks = 0
    /\ recordings = <<>>
    /\ choice = NoChoice
    /\ selected = <<>>
    /\ invalid = FALSE
    /\ transcribed = <<>>
    /\ deleted = {}
    /\ message = "none"
    /\ transcripts = <<>>

\* the menu options "Transcribe a recording" and "Delete a recording"
NextSelect ==
    \/ TranscribeRecordingSelect
    \/ LoadModel
    \/ LoadModelFail
    \/ EngineReturn
    \/ EngineFail
    \/ OpenTxt
    \/ WriteTxt
    \/ OpenJson
    \/ DumpJson
    \/ TranscribeRecordingDone
    \/ TranscribeRecordingDelete
    \/ DeleteRecordingSelect
    \/ DeleteRecordingConfirm

SpecSelect == InitApp /\ [][NextSelect]_vars

\* the menu option "Start recording session"
NextMenu ==
    \/ StartRecordingSession
    \/ StartSession
    \/ RecStart
    \/ RecWait
    \/ WriteChunk
    \/ CallCallback
    \/ Increment
    \/ CheckCeiling
    \/ KeyboardInterrupt
    \/ ConsGlob
    \/ ConsGlobReversed
    \/ ConsRead
    \/ ConsWrite
    \/ ConsUnlink
    \/ SessionComplete
    \/ LoadModel
    \/ EngineReturn
    \/ EngineFail
    \/ OpenTxt
    \/ WriteTxt
    \/ OpenJson
    \/ DumpJson
    \/ TranscribeNowDone

SpecMenu == InitApp /\ [][NextMenu]_vars

(***************************************************************************)
(* WhisperNotetaker.run: the loop around the handlers, followed through    *)
(* the menu option "Test BlackHole setup", which records one file,         *)
(* transcribes it and offers to delete it.                                 *)
(***************************************************************************)
\* "test_blackhole.wav" (line 125 of main.py, line 58 of recorder.py)
TestFile == <<116, 101, 115, 116, 95, 98, 108, 97, 99, 107, 104, 111, 108, 101>> \o StrWav

\* lines 125-130 of _test_audio_setup: record(10, "test_blackhole") returns
\* the file it wrote and transcribe is called with it
TestRecord ==
    /\ mpc = "menu"
    /\ \E buf \in Buffers(0) : files' = WriteFile(files, TestFile, Full(SampleRate, buf))
    /\ Transcribe(AppTranscriber, TestFile, TRUE)
    /\ transcribed' = Append(transcribed, TestFile)
    /\ mpc' = "test_transcribing"
    /\ message' = "none"
    /\ UNCHANGED <<now, pc, max_recordings, consolidate, callback, chunk_num,
                   session_id, recording, chunks, data_list, sample_rate,
                   output_path, captures, written, reported, interrupted,
                   record_failed, removed, sessVars, chunk_duration, max_chunks,
                   recordings, choice, selected, invalid, deleted, transcripts>>

\* what run does with an exception of a handler: `except Exception`
\* (lines 93-94) prints it and the loop goes on
ExceptionPc == "menu"

\* line 125: the capture fails in record; the exception reaches run
TestRecordFail ==
    /\ mpc = "menu"
    /\ mpc' = ExceptionPc
    /\ message' = "error"
    /\ UNCHANGED <<recVars, transVars, menuData>>

\* what run does with Ctrl+C in a handler: `except KeyboardInterrupt`
\* (lines 91-92) prints "Operation cancelled by user" and the loop goes on
CancelledPc == "menu"

\* line 125: Ctrl+C while record captures or writes; an interrupted write
\* leaves no file or an unfinished one
TestRecordInterrupt ==
    /\ mpc = "menu"
    /\ \/ UNCHANGED files
       \/ \E buf \in Buffers(0), k \in 0..(MaxSamples - 1) :
            /\ k < Len(buf)
            /\ files' = WriteFile(files, TestFile, Partial(SampleRate, buf, k))
    /\ mpc' = CancelledPc
    /\ message' = "cancelled"
    /\ UNCHANGED <<now, pc, max_recordings, consolidate, callback, chunk_num,
                   session_id, recording, chunks, data_list, sample_rate,
                   output_path, captures, written, reported, interrupted,
                   record_failed, removed, sessVars, transVars, menuData>>

\* lines 130-147: transcribe returned and "Delete test file?" is asked, or
\* it raised and the exception reaches run
TestTranscribeDone ==
    /\ mpc = "test_transcribing"
    /\ tpc \in {"returned", "raised"}
    /\ mpc' = IF tpc = "returned" THEN "test_delete" ELSE ExceptionPc
    /\ message' = IF tpc = "returned" THEN message ELSE "error"
    /\ tpc' = "idle"
    /\ UNCHANGED <<recVars, self, model, loads, used, texc, tfiles, audio_file,
                   save, timestamp, created, calls, menuData>>

\* lines 147-150: on 'y' filepath.unlink()
TestDelete ==
    /\ mpc = "test_delete"
    /\ \E yes \in BOOLEAN :
        IF yes
        THEN /\ files' = Unlink(files, {TestFile})
             /\ deleted' = deleted \cup {TestFile}
        ELSE UNCHANGED <<files, deleted>>
    /\ mpc' = "menu"
    /\ UNCHANGED <<now, pc, max_recordings, consolidate, callback, chunk_num,
                   session_id, recording, chunks, data_list, sample_rate,
                   output_path, captures, written, reported, interrupted,
                   record_failed, removed, sessVars, transVars, chunk_duration,
                   max_chunks, recordings, choice, selected, invalid, transcribed,
                   message, transcripts>>

\* lines 130, 147, 327: Ctrl+C while transcribe runs, at "Delete test
\* file?" or at "Delete this transcript?"; the call of transcribe, if any,
\* is abandoned where it is
OperationInterrupt ==
    /\ mpc \in {"test_transcribing", "test_delete", "view_delete"}
    /\ mpc' = CancelledPc
    /\ message' = "cancelled"
    /\ tpc' = "idle"
    /\ texc' = IF tpc = "idle" THEN texc ELSE "interrupt"
    /\ UNCHANGED <<recVars, self, model, loads, used, tfiles, audio_file, save,
                   timestamp, created, calls, menuData>>

\* transcripts_path.glob("*.txt")
TxtPattern == [prefix |-> <<>>, suffix |-> StrTxt]

\* the position of the last "." of name, 0 if it has none
LastDot(name) ==
    LET Dots == {i \in 1..Len(name) : name[i] = 46}
    IN  IF Dots = {} THEN 0 ELSE CHOOSE i \in Dots : \A j \in Dots : j <= i

WithSuffixAppended(name, suffix) == name \o suffix

\* Path.with_suffix: the last suffix of the name is replaced by suffix, a
\* name without one gets it appended
WithSuffix(name, suffix) ==
    IF LastDot(name) = 0
    THEN name \o suffix
    ELSE SubSeq(name, 1, LastDot(name) - 1) \o suffix

\* lines 296-320 of _view_transcripts: the *.txt files are listed, latest
\* modification first (the model keeps no modification times of transcripts:
\* any order), a number may be entered, and transcripts[int(choice) - 1] is
\* read and shown; IndexError prints "Invalid selection", an entry that is
\* not a number ends the handler
ViewTranscriptsSelect ==
    /\ mpc = "menu"
    /\ \E listing \in Orders(Glob(tfiles, TxtPattern)) :
        /\ transcripts' = listing
        /\ IF Glob(tfiles, TxtPattern) = {}
           THEN /\ choice' = NoChoice
                /\ selected' = <<>>
                /\ invalid' = FALSE
                /\ UNCHANGED mpc
           ELSE \E c \in Choices :
                /\ choice' = c
                /\ IF IsDigit(c) /\ InRange(listing, c.n - 1)
                   THEN /\ selected' = Index(listing, c.n - 1)
                        /\ invalid' = FALSE
                        /\ mpc' = "view_delete"
                   ELSE /\ selected' = <<>>
                        /\ invalid' = IsDigit(c)
                        /\ UNCHANGED mpc
    /\ message' = "none"
    /\ UNCHANGED <<recVars, transVars, chunk_duration, max_chunks, recordings,
                   transcribed, deleted>>

\* lines 327-334: on 'y' filepath.unlink(), then the file with the suffix
\* .json is unlinked if it exists, and "Deleted <name>" is printed
ViewTranscriptsDelete ==
    /\ mpc = "view_delete"
    /\ \E yes \in BOOLEAN :
        IF yes
        THEN LET json_file == WithSuffix(selected, StrJson)
                 gone == {selected} \cup
                            (IF json_file \in DOMAIN tfiles THEN {json_file} ELSE {})
             IN  /\ tfiles' = Unlink(tfiles, gone)
                 /\ deleted' = deleted \cup gone
                 /\ message' = "deleted"
        ELSE UNCHANGED <<tfiles, deleted, message>>
    /\ mpc' = "menu"
    /\ UNCHANGED <<recVars, tpc, self, model, loads, used, texc, audio_file, save,
                   timestamp, created, calls, chunk_duration, max_chunks,
                   recordings, choice, selected, invalid, transcribed, transcripts>>

\* line 329: filepath.unlink() raises; nothing is removed and the exception
\* reaches run
ViewUnlinkFail ==
    /\ mpc = "view_delete"
    /\ mpc' = ExceptionPc
    /\ message' = "error"
    /\ UNCHANGED <<recVars, transVars, menuData>>

\* line 333: json_file.unlink() raises after the text file has been removed;
\* the exception reaches run
ViewJsonUnlinkFail ==
    /\ mpc = "view_delete"
    /\ WithSuffix(selected, StrJson) \in DOMAIN tfiles
    /\ tfiles' = Unlink(tfiles, {selected})
    /\ deleted' = deleted \cup {selected}
    /\ mpc' = ExceptionPc
    /\ message' = "error"
    /\ UNCHANGED <<recVars, tpc, self, model, loads, used, texc, audio_file, save,
                   timestamp, created, calls, chunk_duration, max_chunks,
                   recordings, choice, selected, invalid, transcribed, transcripts>>

\* lines 84-86: the user enters 0: "Goodbye!" and break
MenuExit ==
    /\ mpc = "menu"
    /\ mpc' = "exited"
    /\ UNCHANGED <<recVars, transVars, menuData, message>>

\* line 57: `choice = input(...)` stands in the loop before `try:`, so what
\* input raises (KeyboardInterrupt on Ctrl+C, EOFError at the end of the
\* input) is caught by nothing and leaves run
PromptInterruptPc == "killed"

\* line 57: Ctrl+C or end of input at "Enter choice:"
PromptInterrupt ==
    /\ mpc = "menu"
    /\ mpc' = PromptInterruptPc
    /\ UNCHANGED <<recVars, transVars, menuData, message>>

NextLoop ==
    \/ TestRecord
    \/ TestRecordFail
    \/ TestRecordInterrupt
    \/ LoadModel
    \/ LoadModelFail
    \/ EngineReturn
    \/ EngineFail
    \/ OpenTxt
    \/ OpenTxtFail
    \/ WriteTxt
    \/ WriteTxtFail
    \/ OpenJson
    \/ OpenJsonFail
    \/ DumpJson
    \/ DumpJsonFail
    \/ TestTranscribeDone
    \/ TestDelete
    \/ ViewTranscriptsSelect
    \/ ViewTranscriptsDelete
    \/ ViewUnlinkFail
    \/ ViewJsonUnlinkFail
    \/ OperationInterrupt
    \/ MenuExit
    \/ PromptInterrupt

SpecLoop == InitApp /\ [][NextLoop]_vars

\* the transcript viewer on the transcripts that test recordings have left
NextView ==
    \/ TestRecord
    \/ LoadModel
    \/ EngineReturn
    \/ OpenTxt
    \/ WriteTxt
    \/ OpenJson
    \/ OpenJsonFail
    \/ DumpJson
    \/ TestTranscribeDone
    \/ TestDelete
    \/ ViewTranscriptsSelect
    \/ ViewTranscriptsDelete
    \/ ViewUnlinkFail
    \/ ViewJsonUnlinkFail

SpecView == InitApp /\ [][NextView]_vars

(***************************************************************************)
(* Properties of the recording session.                                    *)
(***************************************************************************)
\* the chunk files of this session in the directory
SessionFiles == Glob(files, SessionPattern(session_id))

\* the number of chunk files of this session that were written to the end
FullChunkFiles == Cardinality({n \in SessionFiles : files[n].full})

\* the consolidated file holds, complete, the buffers that were read
OutputWritten ==
    /\ output_path \in DOMAIN files
    /\ files[output_path] = Full(sample_rate, Concatenate(data_list))

\* C1: when continuous_record(consolidate=True) returns after writing at
\* least one chunk, by a stop request or by the ceiling, the session's
\* chunks have been merged into one consolidated file and its chunk files
\* are deleted.
C1_ConsolidatedOnReturn ==
    (pc = "returned" /\ consolidate /\ written # <<>>) =>
        /\ OutputWritten
        /\ SessionFiles = {}

\* C2: no chunk file is deleted while the consolidated file is not fully
\* written: as long as the output is not complete, also after a failed
\* write, every chunk file the consolidation found is still there; the
\* files deleted are chunks it found, and their buffers are in the output.
C2_NoLossDeletion ==
    /\ ~OutputWritten =>
           /\ removed = {}
           /\ \A i \in 1..Len(chunks) : chunks[i] \in DOMAIN files
    /\ removed \subseteq FirstChunks(Len(chunks))
    /\ pc = "cons_unlink" =>
           \A i \in 1..Len(chunks) : files[chunks[i]].data = data_list[i]

\* C2 happens: the output was written and the chunks were deleted
C2_Witness == pc = "returned" /\ removed # {} /\ Len(chunks) >= 2

\* C4: when a stop request takes effect, every capture that was started
\* has its chunk file fully written (no capture is cut off).
C4_CancellationBoundary ==
    pc = "handler" => captures = FullChunkFiles

\* C5: the count reported at the stop is the number of chunk files the
\* session has fully written.
C5_ReportedCount ==
    pc = "handler" => reported = FullChunkFiles

\* C6: with a ceiling C >= 1 no session makes more than C captures or comes
\* back to the top of the loop once C chunks are counted, and a session that
\* returns without a stop request has made exactly C captures and written
\* exactly C chunk files.
C6_CeilingEnforced ==
    max_recordings >= 1 =>
        /\ captures <= max_recordings
        /\ pc = "loop_top" => chunk_num < max_recordings
        /\ (pc = "returned" /\ ~interrupted) =>
               (captures = max_recordings /\ Len(written) = max_recordings)

\* C6 happens: an uninterrupted session with ceiling 2 has returned
C6_Witness ==
    pc = "returned" /\ ~interrupted /\ max_recordings = 2 /\ captures = 2

\* C7: with a ceiling of zero or less no capture is made and no chunk file
\* is written.
C7_NoRecording ==
    max_recordings <= 0 => (captures = 0 /\ SessionFiles = {})

\* C8: a callback that raises does not end the session: from the callback
\* the loop goes on to the increment of the counter (or to the handler of
\* a stop request).
C8_CallbackFailureContinues ==
    [][pc = "callback" => pc' \in {"callback", "incr", "handler"}]_vars

\* C9: the sequence numbers of the chunk files the session has written are
\* 0, 1, ..., k-1 in this order; until the session is stopped or fails, the
\* directory holds exactly these files, and at the top of the loop k is
\* the chunk counter.
C9_Contiguity ==
    /\ written = [i \in 1..Len(written) |-> i - 1]
    /\ (~interrupted /\ ~record_failed) =>
           SessionFiles = {ChunkFile(session_id, n) : n \in 0..(Len(written) - 1)}
    /\ pc = "loop_top" => chunk_num = Len(written)

\* C9 happens: two chunks written without interruption
C9_Witness == pc = "loop_top" /\ ~interrupted /\ Len(written) >= 2

\* C3: the buffer consolidation writes is the concatenation of the
\* session's chunk buffers in ascending order of sequence number, each once,
\* whatever the order of the listing.
C3_OrderPreserved ==
    (pc = "cons_unlink" /\ output_path \in DOMAIN files) =>
        \E K \in {Cardinality(SessionFiles)} :
            files[output_path].data =
                Concatenate([i \in 1..K |-> files[ChunkFile(session_id, i - 1)].data])

\* C12: when the consolidation of a stopped session finds no chunk file of
\* the session, it returns without an exception, no output file is named or
\* written, nothing is deleted and the directory is as the session found it.
C12_EmptyConsolidation ==
    (pc = "returned" /\ interrupted /\ consolidate /\ chunks = <<>>) =>
        /\ output_path = <<>>
        /\ removed = {}
        /\ files = prior
        /\ Glob(files, ConsolidatedPattern) = {}
        /\ rexc = "none"

\* C12 happens: a capture was started, the stop came before its file was
\* written, and the consolidation found nothing
C12_Witness ==
    pc = "returned" /\ interrupted /\ consolidate /\ chunks = <<>> /\ captures = 1

\* C15: once the backend has failed in record (sd.rec or sd.wait raised),
\* the exception has left the session, no file has the name of the chunk
\* that was being captured, and the session's files are the chunks written
\* to the end before.
C15_CaptureFailureNoFile ==
    rexc = "capture" =>
        /\ pc = "raised"
        /\ ChunkFile(session_id, chunk_num) \notin DOMAIN files
        /\ SessionFiles = {ChunkFile(session_id, written[i]) : i \in 1..Len(written)}
        /\ \A n \in SessionFiles : files[n].full

\* C15 happens: the capture of the second chunk failed
C15_Witness == rexc = "capture" /\ pc = "raised" /\ Len(written) = 1

\* C18: whatever the sample rates of the chunk files, the consolidation
\* reads all of them without failing, and the output it has written has
\* the rate of the first chunk and, as data, the samples of every chunk,
\* unchanged, in the order of the sequence numbers.
C18_RateMismatchNonFatal ==
    /\ rexc # "read"
    /\ pc = "cons_write" => Len(data_list) = Len(chunks)
    /\ pc \in {"cons_unlink", "returned"} =>
           \E K \in {Cardinality(DOMAIN prior)} :
               /\ output_path \in DOMAIN files
               /\ files[output_path] =
                      Full(prior[ChunkFile(session_id, 0)].rate,
                           Concatenate([i \in 1..K |-> prior[ChunkFile(session_id, i - 1)].data]))

\* C18 happens: the second chunk's rate differs from the first's and the
\* consolidation has returned
C18_Witness ==
    /\ pc = "returned"
    /\ Len(chunks) >= 2
    /\ prior[chunks[2]].rate # prior[chunks[1]].rate
    /\ output_path \in DOMAIN files

\* C19: a session reads and deletes only files that match its own pattern
\* chunk_<token>_*.wav, and every other complete file that was in the
\* directory when the session started (chunk files of other tokens,
\* consolidated recordings) is still there, unchanged.
C19_SessionIsolation ==
    /\ \A i \in 1..Len(chunks) : Matches(chunks[i], SessionPattern(session_id))
    /\ \A n \in removed : Matches(n, SessionPattern(session_id))
    /\ \A n \in DOMAIN prior :
           (prior[n].full /\ ~Matches(n, SessionPattern(session_id))) =>
               (n \in DOMAIN files /\ files[n] = prior[n])

\* C16: when continuous_record has returned, after a stop request or at the
\* ceiling, its result is the pair of the session token and the number of
\* chunks completed.
C16_ReturnsTokenAndCount ==
    pc = "returned" =>
        /\ result.kind = "pair"
        /\ result.token = session_id
        /\ result.count = chunk_num

(***************************************************************************)
(* Properties of the transcript files.                                     *)
(***************************************************************************)
\* the transcript files the current call has left in the directory
Persisted == created \cap DOMAIN tfiles

\* C10: after a call of transcribe(audio_file, save=True), returned or
\* raised, the call has persisted two transcript files or none.
C10_PairOrNothing ==
    (tpc \in {"returned", "raised"} /\ save) => Cardinality(Persisted) \in {0, 2}

(***************************************************************************)
(* Properties of the menu and of the transcriber instances.                *)
(***************************************************************************)
\* C11: when the number entered at the selection of a recording is outside
\* 1..N, N the length of the listing shown, "Invalid selection" is printed
\* and no recording is selected, so none is transcribed or deleted.
C11_SelectionErrors ==
    (choice.entered /\ choice.int /\ choice.n \notin 1..Len(recordings)) =>
        (invalid /\ selected = <<>>)

\* C17: a session started from the menu and not stopped by the user goes
\* round its loop only while fewer chunks than the announced max_chunks
\* (3600 // chunk_duration) are recorded, and when it returns it has written
\* exactly max_chunks chunks.
C17_OneHourLimit ==
    (mpc = "recording" /\ ~interrupted) =>
        /\ pc = "loop_top" => chunk_num < max_chunks
        /\ pc = "returned" => Len(written) = max_chunks

\* C20: the file "Transcribe now?" passes to the transcriber is the
\* consolidated file the session that just ended has written.
C20_TranscribesOwnSession ==
    mpc = "transcribing_now" =>
        /\ audio_file = output_path
        /\ OutputWritten

\* C13: once the engine call of transcribe has raised, the call is over with
\* that exception and has created no transcript file, whether save was
\* asked or not: the transcripts directory is as the call found it.
C13_EngineFailurePersistsNothing ==
    texc = "engine" =>
        /\ tpc \in {"raised", "idle"}
        /\ created = {}
        /\ \A f \in AudioFiles, t \in 0..MaxClock :
               (TxtFile(f, t) \in DOMAIN tfiles \/ JsonFile(f, t) \in DOMAIN tfiles)
                   => calls > 1

\* C13 happens: the engine raised in a call that was to save its transcript
C13_Witness == texc = "engine" /\ tpc = "raised" /\ save /\ calls = 1

\* C14: an instance transcribe was never called on has no engine handle; a
\* handle is there exactly when one load has succeeded, and no instance
\* loads twice; when the engine is used the instance of the call holds a
\* handle.  Each instance has its own.
C14_LazySingleHandle ==
    /\ \A a \in Adapters :
           /\ a \notin used => (model[a] = "None" /\ loads[a] = 0)
           /\ loads[a] <= 1
           /\ model[a] = "loaded" <=> loads[a] = 1
    /\ tpc \in {"engine", "save", "write_txt", "open_json", "dump_json", "returned"}
           => model[self] = "loaded"

\* C14 happens: a second call on the same instance uses the engine, the
\* other instance was never called
C14_Witness ==
    calls = 2 /\ tpc = "engine" /\ used = {self} /\ loads[self] = 1

\* C21: the loop of run is never left by an exception or an interrupt: it
\* is over only after the user has entered 0.
C21_LoopSurvives == mpc # "killed"

\* C22: a deletion the transcript viewer has carried out after the user's
\* confirmation removes the text file, the structured file of the same base
\* name if there is one, and nothing else: afterwards neither of the two
\* exists and every other transcript file is there as it was.
C22_DeletedInPairs ==
    [][(mpc = "view_delete" /\ message' = "deleted") =>
        \E t \in 0..MaxClock :
            /\ selected = TxtFile(TestFile, t)
            /\ DOMAIN tfiles' =
                  DOMAIN tfiles \ {TxtFile(TestFile, t), JsonFile(TestFile, t)}
            /\ \A n \in DOMAIN tfiles' : tfiles'[n] = tfiles[n]]_vars

\* a pair has been deleted in the viewer while another transcript stays
C22_Witness ==
    /\ mpc = "menu"
    /\ message = "deleted"
    /\ \E t \in 0..MaxClock :
        /\ selected = TxtFile(TestFile, t)
        /\ JsonFile(TestFile, t) \in deleted
    /\ \E n \in DOMAIN tfiles : Matches(n, TxtPattern)

=============================================================================
